---- MODULE Spec2Model ----
(***************************************************************************)
(* Model of caspar::core::transition_producer::implementation              *)
(* (src/core/producer/transition/transition_producer.cpp).                 *)
(*                                                                         *)
(* One transition producer object and the child producers reachable from   *)
(* its two slots.  A child producer is an opaque frame source: each call   *)
(* of its render_frame yields a new frame, yields absence, or raises.      *)
(* Frames are records carrying the identity of the producing child and the *)
(* ordinal of the frame, so what a composite is made of can be read back.  *)
(* Real-valued attributes (alpha, translate, texcoords) are exact          *)
(* rationals <<numerator, denominator>>.                                   *)
(***************************************************************************)
EXTENDS Integers, Sequences, FiniteSets, TLC

(* ---------------------------- bounds ----------------------------------- *)
MaxDuration == 3
\* render_frame calls explored per behaviour of Spec
MaxCalls == 5
\* render_frame calls explored per behaviour of SpecWrap (past 2^16)
WrapCalls == 65538

(* ------------------------ program constants ---------------------------- *)
\* unsigned short current_frame_ : values are taken modulo 2^16
CounterModulus == 65536
\* full scale of the integer audio volume (256.0 / 256-volume / >>8)
FullVolume == 256
ShortModulus == 65536
ShortMin == -32768

(* --------------------------- vocabulary -------------------------------- *)
None == 0
DestId == 1
SourceId == 2
DestNextId == 3
SourceNextId == 4
ProducerIds == {DestId, SourceId, DestNextId, SourceNextId}
Slots == {"dest", "source"}
Outcomes == {"frame", "absent", "raise"}
TheFactory == 1

transition_type == {"cut", "mix", "slide", "push", "wipe"}
transition_direction == {"from_left", "from_right"}
transition_info ==
    [type : transition_type, direction : transition_direction,
     duration : 0..MaxDuration]

\* get_following_producer() of the child producers: the link layouts explored
NoLinks == [p \in ProducerIds |-> None]
LinkConfigs ==
    { [p \in ProducerIds |->
          IF p = DestId /\ d THEN DestNextId
          ELSE IF p = SourceId /\ s THEN SourceNextId ELSE None]
      : d \in BOOLEAN, s \in BOOLEAN }

\* the producers a slot can come to hold (its first producer and followers)
ChainOf(slot) ==
    IF slot = "dest" THEN {DestId, DestNextId} ELSE {SourceId, SourceNextId}

(* ---------------------------- rationals -------------------------------- *)
Rat(n, d) == <<n, d>>
Zero == Rat(0, 1)
One == Rat(1, 1)
Two == Rat(2, 1)
MinusOne == Rat(-1, 1)
RatEq(a, b) == a[1] * b[2] = b[1] * a[2]
RatAdd(a, b) == Rat(a[1] * b[2] + b[1] * a[2], a[2] * b[2])
RatSub(a, b) == Rat(a[1] * b[2] - b[1] * a[2], a[2] * b[2])
PointEq(p, q) == RatEq(p[1], q[1]) /\ RatEq(p[2], q[2])
RectEq(r, s) == \A i \in 1..4 : RatEq(r[i], s[i])

(* ----------------------------- frames ---------------------------------- *)
Absent == [kind |-> "absent"]
NoVolume == -1
\* rectangle(left, top, right, bottom) of an untouched frame
UnitRect == <<Zero, One, One, Zero>>

\* 16-bit signed PCM sample carried by frame idx of producer p
SampleOf(p, idx) ==
    LET samples == <<10000, -32768, 32767, -1, 0>>
    IN  samples[((p + idx) % 5) + 1]

\* the frame a child producer hands out on its idx-th successful render
ProducedFrame(p, idx) ==
    [kind |-> "frame", prod |-> p, idx |-> idx,
     alpha |-> One, translate |-> <<Zero, Zero>>, texcoords |-> UnitRect,
     audio_data |-> <<SampleOf(p, idx)>>, volume |-> NoVolume]

IsFrame(f) == f.kind = "frame"

\* static_cast<short>(x)
ToShort(x) == ((x - ShortMin) % ShortModulus) + ShortMin

VARIABLES
    pc,                 \* "new" | "ctor_failed" | "idle" | "fork"
    thrown,             \* exception that left the last operation, or "none"
    info_,
    current_frame_,
    source_producer_,
    dest_producer_,
    factory_,
    following,          \* child -> its get_following_producer()
    prod,               \* child -> [pos, invocations, factory, leading, initialized]
    task,               \* slot -> "idle" | "run" | "done"  (parallel_invoke)
    frames,             \* slot -> the local gpu_frame_ptr dest / source
    result,             \* value returned by the last render_frame call
    calls,              \* number of render_frame calls made so far
    exhaustedRet,       \* the last render_frame call returned at the counter test
    srcFailure,         \* the raise caught in the source slot, if any
    tick,               \* what the render_frame call in progress has done so far
    stage,              \* the channel's stage driving a transition producer
    server              \* server::impl during setup

vars == <<pc, thrown, info_, current_frame_, source_producer_, dest_producer_,
          factory_, following, prod, task, frames, result, calls,
          exhaustedRet, srcFailure, tick, stage, server>>

\* the state outside the transition producer and its children
outside == <<stage, server>>

\* the stage's current producer when it is the transition producer itself
TransitionId == 5

\* a stage after construction: Empty, nothing loaded, nothing emitted
InitStage ==
    [pc |-> "idle", current |-> None, pending |-> None, pending_info |-> FALSE,
     last |-> Absent, ticks |-> 0, emitted |-> 0, retried |-> FALSE,
     seen |-> 0]

\* server::impl before its constructor runs
InitServer ==
    [pc |-> "idle", thrown |-> "none",
     xml_channels |-> <<>>, channel_grid |-> FALSE, channels_ |-> <<>>,
     xml_controllers |-> <<>>, async_servers_ |-> <<>>,
     primary_amcp_server_ |-> None,
     logged |-> 0, warnings |-> 0]

NoFailure == [prod |-> None, call |-> 0, invocations |-> 0]

FreshProducer ==
    [pos |-> 0, invocations |-> 0, factory |-> None, leading |-> None,
     initialized |-> FALSE, events |-> <<>>]

\* per call of render_frame: render_frame invocations per child, auto-advances
\* per slot, slots whose child raised, slots whose task has returned
NoTick ==
    [inv |-> [p \in ProducerIds |-> 0], adv |-> [s \in Slots |-> 0],
     raised |-> [s \in Slots |-> FALSE], ran |-> [s \in Slots |-> FALSE]]

\* the history counters stop counting at CountCap
CountCap == 2 * MaxCalls + 2
Count(n) == IF n < CountCap THEN n + 1 ELSE n

\* the calls a child has received, each kind noted once, in order of arrival
Note(events, e) ==
    IF \E i \in 1..Len(events) : events[i] = e THEN events
    ELSE Append(events, e)

InitWith(links) ==
    /\ pc = "new"
    /\ thrown = "none"
    /\ info_ = [type |-> "cut", direction |-> "from_left", duration |-> 0]
    /\ current_frame_ = 0
    /\ source_producer_ = None
    /\ dest_producer_ = None
    /\ factory_ = None
    /\ following \in links
    /\ prod = [p \in ProducerIds |-> FreshProducer]
    /\ task = [s \in Slots |-> "idle"]
    /\ frames = [s \in Slots |-> Absent]
    /\ result = Absent
    /\ calls = 0
    /\ exhaustedRet = FALSE
    /\ srcFailure = NoFailure
    /\ tick = NoTick
    /\ stage = InitStage
    /\ server = InitServer

Init == InitWith(LinkConfigs)

(* ------------------------- transition producer ------------------------- *)

\* a constructor without the test of dest
Construct_NoDestCheck(dest, info) ==
    /\ pc = "new"
    /\ info_' = info
    /\ current_frame_' = 0
    /\ dest_producer_' = dest
    /\ pc' = "idle"
    /\ thrown' = "none"
    /\ UNCHANGED <<source_producer_, factory_, following, prod, task, frames,
                   result, calls, exhaustedRet, srcFailure, tick>>
    /\ UNCHANGED outside

\* implementation(dest, info, format_desc)
Construct(dest, info) ==
    /\ pc = "new"
    /\ info_' = info
    /\ current_frame_' = 0
    /\ dest_producer_' = dest
    /\ IF dest = None
         THEN pc' = "ctor_failed" /\ thrown' = "null_argument(dest)"
         ELSE pc' = "idle" /\ thrown' = "none"
    /\ UNCHANGED <<source_producer_, factory_, following, prod, task, frames,
                   result, calls, exhaustedRet, srcFailure, tick>>
    /\ UNCHANGED outside

\* get_following_producer()
get_following_producer == dest_producer_

\* set_leading_producer(producer); the owner installs the outgoing producer
\* when the transition is promoted, before the first render_frame
set_leading_producer(producer) ==
    /\ pc = "idle"
    /\ calls = 0
    /\ source_producer_ = None
    /\ source_producer_' = producer
    /\ UNCHANGED <<pc, thrown, info_, current_frame_, dest_producer_, factory_,
                   following, prod, task, frames, result, calls, exhaustedRet,
                   srcFailure, tick>>
    /\ UNCHANGED outside

\* initialize(factory)
initialize(factory) ==
    /\ pc = "idle"
    /\ calls = 0
    /\ factory_ = None
    /\ dest_producer_ # None
    /\ prod' = [prod EXCEPT ![dest_producer_].factory = factory,
                            ![dest_producer_].initialized = TRUE,
                            ![dest_producer_].events = Note(@, "initialize")]
    /\ factory_' = factory
    /\ UNCHANGED <<pc, thrown, info_, current_frame_, source_producer_,
                   dest_producer_, following, task, frames, result, calls,
                   exhaustedRet, srcFailure, tick>>
    /\ UNCHANGED outside

\* current_frame_++ >= info_.duration : the test on the value before increment
Exhausted(cf, duration) == cf >= duration

\* current_frame_++ on an unsigned short
Increment(cf) == (cf + 1) % CounterModulus

\* render_frame(): counter test, then fork of the two child tasks
render_frame(maxCalls) ==
    /\ pc = "idle"
    /\ calls < maxCalls
    /\ calls' = calls + 1
    /\ current_frame_' = Increment(current_frame_)
    /\ frames' = [s \in Slots |-> Absent]
    /\ tick' = NoTick
    /\ IF Exhausted(current_frame_, info_.duration)
         THEN /\ result' = Absent
              /\ exhaustedRet' = TRUE
              /\ UNCHANGED <<pc, task>>
         ELSE /\ pc' = "fork"
              /\ task' = [s \in Slots |-> "run"]
              /\ exhaustedRet' = FALSE
              /\ UNCHANGED result
    /\ UNCHANGED <<thrown, info_, source_producer_, dest_producer_, factory_,
                   following, prod, srcFailure>>
    /\ UNCHANGED outside

SlotValue(slot) == IF slot = "dest" THEN dest_producer_ ELSE source_producer_

\* a catch block that logs but keeps the producer in its slot
Detach_KeepsProducer(producer) == producer

\* catch(...) : the producer reference is reset
Detach(producer) == None

\* the test that starts auto-advance to the following producer
Advances(frame, producer) ==
    frame = Absent /\ producer # None /\ following[producer] # None

\* an auto-advance that hands over the slot before preparing the producer
Entered_SlotFirst(events) ==
    Note(Note(Note(events, "enter_slot"), "initialize"), "set_leading_producer")

\* lines 93-95 as the following producer sees them: initialize(factory_),
\* set_leading_producer(producer), then the slot is given to it
Entered(events) ==
    Note(Note(Note(events, "initialize"), "set_leading_producer"), "enter_slot")

\* render_frame(frame_producer_ptr& producer): one activation of the function
\* on the slot's current producer; the tail call on the following producer is
\* the next activation.
child_render_frame(slot, outcome) ==
    LET producer == SlotValue(slot)
        frame == IF producer # None /\ outcome = "frame"
                   THEN ProducedFrame(producer, prod[producer].pos)
                   ELSE Absent
        after == IF producer # None /\ outcome = "raise"
                   THEN Detach(producer) ELSE producer
        advance == Advances(frame, after)
        next == IF advance THEN following[producer] ELSE after
        rendered ==
            IF producer = None THEN prod
            ELSE [prod EXCEPT
                    ![producer].invocations = Count(@),
                    ![producer].pos = IF outcome = "frame" THEN @ + 1 ELSE @,
                    ![producer].events = Note(@, "render_frame")]
    IN  /\ pc = "fork"
        /\ task[slot] = "run"
        /\ producer = None => outcome = "absent"
        /\ prod' = IF advance
                     THEN [rendered EXCEPT
                             ![next].factory = factory_,
                             ![next].initialized = TRUE,
                             ![next].leading = producer,
                             ![next].events = Entered(@)]
                     ELSE rendered
        /\ IF slot = "dest"
             THEN dest_producer_' = next /\ UNCHANGED source_producer_
             ELSE source_producer_' = next /\ UNCHANGED dest_producer_
        /\ IF advance
             THEN UNCHANGED <<task, frames>>
             ELSE /\ task' = [task EXCEPT ![slot] = "done"]
                  /\ frames' = [frames EXCEPT ![slot] = frame]
        /\ srcFailure' =
             IF slot = "source" /\ producer # None /\ outcome = "raise"
                  /\ srcFailure.prod = None
               THEN [prod |-> producer, call |-> calls,
                     invocations |-> Count(prod[producer].invocations)]
               ELSE srcFailure
        /\ tick' =
             [inv |-> IF producer = None THEN tick.inv
                      ELSE [tick.inv EXCEPT ![producer] = Count(@)],
              adv |-> IF advance THEN [tick.adv EXCEPT ![slot] = Count(@)]
                      ELSE tick.adv,
              raised |-> IF producer # None /\ outcome = "raise"
                           THEN [tick.raised EXCEPT ![slot] = TRUE]
                           ELSE tick.raised,
              ran |-> IF advance THEN tick.ran
                      ELSE [tick.ran EXCEPT ![slot] = TRUE]]
        /\ UNCHANGED <<pc, thrown, info_, current_frame_, factory_, following,
                       result, calls, exhaustedRet>>
        /\ UNCHANGED outside

\* a set_volume that scales without the shift back by 8 bits
set_volume_NoShift(frame, volume) ==
    IF ~IsFrame(frame) THEN frame
    ELSE [frame EXCEPT
            !.audio_data =
                [n \in DOMAIN frame.audio_data |->
                    ToShort(frame.audio_data[n] * volume)],
            !.volume = volume]

\* set_volume(frame, volume)
set_volume(frame, volume) ==
    IF ~IsFrame(frame) THEN frame
    ELSE [frame EXCEPT
            !.audio_data =
                [n \in DOMAIN frame.audio_data |->
                    ToShort((frame.audio_data[n] * volume) \div FullVolume)],
            !.volume = volume]

\* progress taken from the counter value before the increment
Alpha_PreIncrement(cf, duration) == Rat(cf - 1, duration)

\* double alpha = current_frame_ / duration
Alpha(cf, duration) == Rat(cf, duration)

\* int volume = (int)(current_frame_ / duration * 256.0).  The quotient is a
\* correctly rounded double and 256.0 a power of two, so for 16-bit operands
\* the truncation equals the integer quotient of 256*cf by duration.
Volume(cf, duration) == (FullVolume * cf) \div duration

\* a wipe that moves dest but leaves its texcoords alone
DestTransform_WipeKeepsTexcoords(info, alpha, f) ==
    IF info.type = "mix" THEN [f EXCEPT !.alpha = alpha]
    ELSE IF info.type \in {"slide", "push", "wipe"} THEN
        IF info.direction = "from_left"
          THEN [f EXCEPT !.translate = <<RatAdd(MinusOne, alpha), Zero>>]
          ELSE [f EXCEPT !.translate = <<RatSub(One, alpha), Zero>>]
    ELSE f

\* the attribute writes on dest_frame, per type and direction
DestTransform(info, alpha, f) ==
    IF info.type = "mix" THEN [f EXCEPT !.alpha = alpha]
    ELSE IF info.type \in {"slide", "push"} THEN
        IF info.direction = "from_left"
          THEN [f EXCEPT !.translate = <<RatAdd(MinusOne, alpha), Zero>>]
          ELSE [f EXCEPT !.translate = <<RatSub(One, alpha), Zero>>]
    ELSE IF info.type = "wipe" THEN
        IF info.direction = "from_left"
          THEN [f EXCEPT !.translate = <<RatAdd(MinusOne, alpha), Zero>>,
                         !.texcoords = <<RatAdd(MinusOne, alpha), One,
                                         alpha, Zero>>]
          ELSE [f EXCEPT !.translate = <<RatSub(One, alpha), Zero>>,
                         !.texcoords = <<RatSub(One, alpha), One,
                                         RatSub(Two, alpha), Zero>>]
    ELSE f

\* a push that moves the source the same way for both directions
SrcTransform_PushOneWay(info, alpha, f) ==
    IF info.type = "push" /\ IsFrame(f)
      THEN [f EXCEPT !.translate = <<RatAdd(Zero, alpha), Zero>>]
      ELSE f

\* the attribute writes on src_frame (push only, and only when present)
SrcTransform(info, alpha, f) ==
    IF info.type = "push" /\ IsFrame(f) THEN
        IF info.direction = "from_left"
          THEN [f EXCEPT !.translate = <<RatAdd(Zero, alpha), Zero>>]
          ELSE [f EXCEPT !.translate = <<RatSub(Zero, alpha), Zero>>]
    ELSE f

\* a composite that layers dest behind the source
Composite_DestFirst(dest_frame, src_frame) ==
    [kind |-> "composite",
     frames |-> IF IsFrame(src_frame) THEN <<dest_frame, src_frame>>
                ELSE <<dest_frame>>]

\* composite->add(src_frame) if present; composite->add(dest_frame)
Composite(dest_frame, src_frame) ==
    [kind |-> "composite",
     frames |-> IF IsFrame(src_frame) THEN <<src_frame, dest_frame>>
                ELSE <<dest_frame>>]

\* a compose without the early return for cut
compose_CutFallsThrough(info, cf, dest_frame, src_frame) ==
    IF ~IsFrame(dest_frame)
      THEN [ret |-> Absent, dest |-> dest_frame, source |-> src_frame]
    ELSE
      LET alpha == Alpha(cf, info.duration)
          volume == Volume(cf, info.duration)
          d == DestTransform(info, alpha, set_volume(dest_frame, volume))
          s == SrcTransform(info, alpha,
                            set_volume(src_frame, FullVolume - volume))
      IN  [ret |-> Composite(d, s), dest |-> d, source |-> s]

\* compose(dest_frame, src_frame): the returned frame and the two argument
\* frames as the call leaves them
compose(info, cf, dest_frame, src_frame) ==
    IF info.type = "cut"
      THEN [ret |-> src_frame, dest |-> dest_frame, source |-> src_frame]
    ELSE IF ~IsFrame(dest_frame)
      THEN [ret |-> Absent, dest |-> dest_frame, source |-> src_frame]
    ELSE
      LET alpha == Alpha(cf, info.duration)
          volume == Volume(cf, info.duration)
          d == DestTransform(info, alpha, set_volume(dest_frame, volume))
          s == SrcTransform(info, alpha,
                            set_volume(src_frame, FullVolume - volume))
      IN  [ret |-> Composite(d, s), dest |-> d, source |-> s]

\* a join that lets compose start when either task has returned
join_compose_AfterEitherTask ==
    /\ pc = "fork"
    /\ \E s \in Slots : task[s] = "done"
    /\ LET c == compose(info_, current_frame_, frames["dest"], frames["source"])
       IN  /\ result' = c.ret
           /\ frames' = [s \in Slots |-> IF s = "dest" THEN c.dest ELSE c.source]
    /\ pc' = "idle"
    /\ task' = [s \in Slots |-> "idle"]
    /\ UNCHANGED <<thrown, info_, current_frame_, source_producer_,
                   dest_producer_, factory_, following, prod, calls,
                   exhaustedRet, srcFailure, tick>>
    /\ UNCHANGED outside

\* join of parallel_invoke, compose, return
join_compose ==
    /\ pc = "fork"
    /\ \A s \in Slots : task[s] = "done"
    /\ LET c == compose(info_, current_frame_, frames["dest"], frames["source"])
       IN  /\ result' = c.ret
           /\ frames' = [s \in Slots |-> IF s = "dest" THEN c.dest ELSE c.source]
    /\ pc' = "idle"
    /\ task' = [s \in Slots |-> "idle"]
    /\ UNCHANGED <<thrown, info_, current_frame_, source_producer_,
                   dest_producer_, factory_, following, prod, calls,
                   exhaustedRet, srcFailure, tick>>
    /\ UNCHANGED outside

Next ==
    \/ \E dest \in {None, DestId}, info \in transition_info : Construct(dest, info)
    \/ \E p \in {SourceId} : set_leading_producer(p)
    \/ initialize(TheFactory)
    \/ render_frame(MaxCalls)
    \/ \E slot \in Slots, outcome \in Outcomes : child_render_frame(slot, outcome)
    \/ join_compose

Spec == Init /\ [][Next]_vars

(* Behaviours long enough for the 16-bit counter to come round: one mix     *)
(* transition of duration 1 whose children always yield a frame.            *)
WrapInfo == [type |-> "mix", direction |-> "from_left", duration |-> 1]

InitWrap == InitWith({NoLinks})

NextWrap ==
    \/ Construct(DestId, WrapInfo)
    \/ set_leading_producer(SourceId)
    \/ initialize(TheFactory)
    \/ render_frame(WrapCalls)
    \/ \E slot \in Slots : child_render_frame(slot, "frame")
    \/ join_compose

SpecWrap == InitWrap /\ [][NextWrap]_vars

(* Behaviours in which the interface is used without regard to ownership:   *)
(* any producer may be installed as source and the following links are      *)
(* arbitrary (shared, chained or cyclic).                                   *)
AnyCalls == 2
AnyInfo == [type |-> "mix", direction |-> "from_left", duration |-> 1]
\* following links as <<of DestId, of SourceId, of DestNextId, of SourceNextId>>
AnyLinks ==
    { <<None, None, None, None>>,
      <<DestNextId, None, SourceNextId, None>>,     \* a chain of three
      <<DestNextId, None, DestId, None>>,           \* a cycle of two
      <<SourceId, None, None, None>> }              \* dest is followed by source

InitAny == InitWith(AnyLinks)

NextAny ==
    \/ Construct(DestId, AnyInfo)
    \/ \E p \in ProducerIds : set_leading_producer(p)
    \/ initialize(TheFactory)
    \/ render_frame(AnyCalls)
    \/ \E slot \in Slots, outcome \in Outcomes : child_render_frame(slot, outcome)
    \/ join_compose

SpecAny == InitAny /\ [][NextAny]_vars


(* -------------------------------- stage -------------------------------- *)
(* The stage of one channel (load, play, stop, tick) driving the transition *)
(* producer above; current = None is the Empty state.                       *)
MaxTicks == 3

StageInfo == [type |-> "mix", direction |-> "from_left", duration |-> 1]

\* following links as <<of DestId, of SourceId, of DestNextId, of SourceNextId>>
StageLinks ==
    { <<None, None, None, None>>,
      <<DestNextId, None, None, None>>,             \* dest is followed by a clip
      <<DestNextId, None, DestId, None>> }          \* a looping pair

Black == [kind |-> "black"]

\* repeat-last, or black when nothing was emitted yet
RepeatLast == IF stage.last = Absent THEN Black ELSE stage.last

\* the tick returns frame to the caller
Emit(frame, cache) ==
    [stage EXCEPT !.pc = "idle", !.emitted = @ + 1,
                  !.last = IF cache THEN frame ELSE @]

\* load(new_producer, transition_info?)
load(new_producer, with_info) ==
    /\ stage.pc = "idle"
    /\ with_info => pc = "new"
    /\ stage' = [stage EXCEPT !.pending = new_producer,
                              !.pending_info = with_info]
    /\ UNCHANGED <<pc, thrown, info_, current_frame_, source_producer_,
                   dest_producer_, factory_, following, prod, task, frames,
                   result, calls, exhaustedRet, srcFailure, tick, server>>

\* play(): with a transition_info the pending producer is wrapped in the
\* transition producer, which becomes current and is given the previous
\* current as leading producer
play ==
    /\ stage.pc = "idle"
    /\ stage.pending # None
    /\ IF stage.pending_info
         THEN /\ pc = "new"
              /\ info_' = StageInfo
              /\ current_frame_' = 0
              /\ dest_producer_' = stage.pending
              /\ source_producer_' =
                   IF stage.current \in ProducerIds THEN stage.current ELSE None
              /\ pc' = "idle"
              /\ stage' = [stage EXCEPT !.current = TransitionId,
                                        !.pending = None,
                                        !.pending_info = FALSE]
         ELSE /\ stage' = [stage EXCEPT !.current = stage.pending,
                                        !.pending = None]
              /\ UNCHANGED <<pc, info_, current_frame_, dest_producer_,
                             source_producer_>>
    /\ UNCHANGED <<thrown, factory_, following, prod, task, frames, result,
                   calls, exhaustedRet, srcFailure, tick, server>>

\* stop()
stop ==
    /\ stage.pc = "idle"
    /\ stage' = [stage EXCEPT !.current = None]
    /\ UNCHANGED <<pc, thrown, info_, current_frame_, source_producer_,
                   dest_producer_, factory_, following, prod, task, frames,
                   result, calls, exhaustedRet, srcFailure, tick, server>>

\* tick() is entered by the channel's driver
tick_begin ==
    /\ stage.pc = "idle"
    /\ stage.ticks < MaxTicks
    /\ stage' = [stage EXCEPT !.pc = "tick", !.ticks = @ + 1,
                              !.retried = FALSE]
    /\ UNCHANGED <<pc, thrown, info_, current_frame_, source_producer_,
                   dest_producer_, factory_, following, prod, task, frames,
                   result, calls, exhaustedRet, srcFailure, tick, server>>

\* tick step 1 in the Empty state: a black frame
tick_empty ==
    /\ stage.pc = "tick"
    /\ stage.current = None
    /\ stage' = Emit(Black, TRUE)
    /\ UNCHANGED <<pc, thrown, info_, current_frame_, source_producer_,
                   dest_producer_, factory_, following, prod, task, frames,
                   result, calls, exhaustedRet, srcFailure, tick, server>>

\* the following producer is initialized and told its leading producer
Prepared(producers, next, leading) ==
    [producers EXCEPT ![next].factory = TheFactory,
                      ![next].initialized = TRUE,
                      ![next].leading = leading,
                      ![next].events = Entered(@)]

\* tick steps 1-5 with a plain producer as current
tick_producer(outcome) ==
    LET producer == stage.current
        rendered ==
            [prod EXCEPT
               ![producer].invocations = Count(@),
               ![producer].pos = IF outcome = "frame" THEN @ + 1 ELSE @,
               ![producer].events = Note(@, "render_frame")]
        next == following[producer]
    IN  /\ stage.pc = "tick"
        /\ stage.current \in ProducerIds
        /\ CASE outcome = "frame" ->
                  /\ stage' = Emit(ProducedFrame(producer, prod[producer].pos),
                                   TRUE)
                  /\ prod' = rendered
             [] outcome = "raise" ->
                  /\ stage' =
                       IF stage.retried
                         THEN [Emit(RepeatLast, FALSE) EXCEPT !.current = next]
                         ELSE [stage EXCEPT !.current = next, !.retried = TRUE]
                  /\ prod' = rendered
             [] outcome = "absent" ->
                  IF next # None /\ ~stage.retried
                    THEN /\ stage' = [stage EXCEPT !.current = next,
                                                   !.retried = TRUE]
                         /\ prod' = Prepared(rendered, next, producer)
                    ELSE /\ stage' = Emit(RepeatLast, FALSE)
                         /\ prod' = rendered
        /\ UNCHANGED <<pc, thrown, info_, current_frame_, source_producer_,
                       dest_producer_, factory_, following, task, frames,
                       result, calls, exhaustedRet, srcFailure, tick, server>>

\* tick step 1 with the transition producer as current: render_frame is called
tick_transition_call ==
    /\ stage.pc = "tick"
    /\ stage.current = TransitionId
    /\ calls = stage.seen
    /\ render_frame(MaxTicks)

\* tick steps 3-5 once the transition producer's render_frame has returned
tick_transition_return ==
    LET next == get_following_producer
    IN  /\ stage.pc = "tick"
        /\ stage.current = TransitionId
        /\ pc = "idle"
        /\ calls = stage.seen + 1
        /\ IF result # Absent
             THEN /\ stage' = [Emit(result, TRUE) EXCEPT !.seen = calls]
                  /\ UNCHANGED prod
             ELSE IF next # None /\ ~stage.retried
               THEN /\ stage' = [stage EXCEPT !.current = next,
                                              !.retried = TRUE,
                                              !.seen = calls]
                    /\ prod' = Prepared(prod, next, TransitionId)
             ELSE /\ stage' = [Emit(RepeatLast, FALSE) EXCEPT !.seen = calls]
                  /\ UNCHANGED prod
        /\ UNCHANGED <<pc, thrown, info_, current_frame_, source_producer_,
                       dest_producer_, factory_, following, task, frames,
                       result, calls, exhaustedRet, srcFailure, tick, server>>

\* a producer the slot comes back to within one call has returned absence
\* in that call and is exhausted: it returns absence again
StaysExhausted(slot, outcome) ==
    (SlotValue(slot) # None /\ tick.inv[SlotValue(slot)] >= 1)
        => outcome = "absent"

\* what one tick does between its entry and its return
TickSteps ==
    \/ tick_empty
    \/ \E outcome \in Outcomes : tick_producer(outcome)
    \/ tick_transition_call
    \/ \E slot \in Slots, outcome \in Outcomes :
          /\ StaysExhausted(slot, outcome)
          /\ child_render_frame(slot, outcome)
    \/ join_compose
    \/ tick_transition_return

InitStageSpec == InitWith(StageLinks)

NextStage ==
    \/ \E with_info \in BOOLEAN :
          load(IF with_info THEN DestId ELSE SourceId, with_info)
    \/ play
    \/ stop
    \/ tick_begin
    \/ TickSteps

\* the driver thread runs a tick it has entered until it returns
SpecStage == InitStageSpec /\ [][NextStage]_vars /\ WF_vars(TickSteps)

(* ------------------------------- server -------------------------------- *)
(* server::impl::setup_channels and setup_controllers (src/shell/server.cpp) *)
(* over configuration trees drawn element by element.                       *)
MaxChannels == 2
MaxConsumers == 2
MaxControllers == 3

transitionVars ==
    <<pc, thrown, info_, current_frame_, source_producer_, dest_producer_,
      factory_, following, prod, task, frames, result, calls, exhaustedRet,
      srcFailure, tick, stage>>

SeqsUpTo(S, n) == UNION { [1..k -> S] : k \in 0..n }

\* element names the consumer loop knows
ConsumerNames == {"screen", "bluefish", "decklink", "file", "system-audio"}

\* <consumers> children: the element name and whether creating it raises
XmlConsumers ==
    { [name |-> "screen", raises |-> FALSE],
      [name |-> "decklink", raises |-> TRUE],
      [name |-> "stream", raises |-> FALSE] }

\* <channels> children
XmlChannels ==
    { [video_mode |-> "PAL", consumers |-> c] :
          c \in SeqsUpTo(XmlConsumers, MaxConsumers) }
    \cup { [video_mode |-> "bogus", consumers |-> <<>>] }

\* video_format_desc(name).format != video_format::invalid
ValidVideoMode(name) == name \in {"PAL", "NTSC", "720p5000", "1080i5000"}

NoProtocol == "<none>"

\* <controllers> children: element name, protocol attribute and whether
\* opening the AsyncEventServer raises
XmlControllers ==
    { [name |-> "tcp", protocol |-> "amcp", raises |-> FALSE],
      [name |-> "tcp", protocol |-> "CII", raises |-> FALSE],
      [name |-> "tcp", protocol |-> "XYZ", raises |-> FALSE],
      [name |-> "tcp", protocol |-> "AMCP", raises |-> TRUE],
      [name |-> "udp", protocol |-> "AMCP", raises |-> FALSE] }

ToUpper(name) ==
    CASE name = "amcp" -> "AMCP"
      [] name = "cii" -> "CII"
      [] name = "clock" -> "CLOCK"
      [] OTHER -> name

\* boost::iequals
IEquals(a, b) == ToUpper(a) = ToUpper(b)

\* create_protocol(name): the strategy made, or "throw" (Invalid protocol)
create_protocol(name) ==
    IF IEquals(name, "AMCP") THEN "AMCPProtocolStrategy"
    ELSE IF IEquals(name, "CII") THEN "CIIProtocolStrategy"
    ELSE IF IEquals(name, "CLOCK") THEN "clk_protocol_strategy"
    ELSE "throw"

\* the consumer loop of one channel: out = [output, logged, warnings]
RECURSIVE add_consumers(_, _)
add_consumers(xml, out) ==
    IF xml = <<>> THEN out
    ELSE
      LET c == Head(xml)
          step ==
            IF c.name \in ConsumerNames
              THEN IF c.raises
                     THEN [out EXCEPT !.logged = @ + 1]
                     ELSE [out EXCEPT !.output = Append(@, c.name)]
            ELSE IF c.name # "<xmlcomment>"
              THEN [out EXCEPT !.warnings = @ + 1]
            ELSE out
      IN  add_consumers(Tail(xml), step)

\* impl(): the constructor up to the call of setup_channels
server_impl ==
    /\ server.pc = "idle"
    /\ server' = [server EXCEPT !.pc = "setup_channels"]
    /\ UNCHANGED transitionVars

\* setup_channels: one pass of the loop over configuration.channels
setup_channels_loop(xml_channel) ==
    /\ server.pc = "setup_channels"
    /\ Len(server.xml_channels) < MaxChannels
    /\ IF ~ValidVideoMode(xml_channel.video_mode)
         THEN server' =
                [server EXCEPT
                   !.pc = "failed",
                   !.thrown = "caspar_exception(Invalid video-mode.)",
                   !.xml_channels = Append(@, xml_channel)]
         ELSE
           LET index == Len(server.channels_) + 1
               r == add_consumers(xml_channel.consumers,
                                  [output |-> <<>>, logged |-> server.logged,
                                   warnings |-> server.warnings])
           IN  server' =
                 [server EXCEPT
                    !.xml_channels = Append(@, xml_channel),
                    !.channels_ =
                        Append(@, [index |-> index, output |-> r.output]),
                    !.logged = r.logged,
                    !.warnings = r.warnings]
    /\ UNCHANGED transitionVars

\* setup_channels: after the loop, the dummy diagnostics channel
setup_channels_end(channel_grid) ==
    /\ server.pc = "setup_channels"
    /\ server' =
         [server EXCEPT
            !.pc = "setup_controllers",
            !.channel_grid = channel_grid,
            !.channels_ =
                IF channel_grid
                  THEN Append(@, [index |-> Len(server.channels_) + 1,
                                  output |-> <<>>])
                  ELSE @]
    /\ UNCHANGED transitionVars

\* a primary server that every AMCP controller takes over
PrimaryAfter_LastWins(primary, protocol, position) ==
    IF IEquals(protocol, "AMCP") THEN position ELSE primary

\* if (!primary_amcp_server_ && iequals(protocol, "AMCP")) primary_amcp_server_ = ...
PrimaryAfter(primary, protocol, position) ==
    IF primary = None /\ IEquals(protocol, "AMCP") THEN position ELSE primary

\* setup_controllers: one pass of the loop over configuration.controllers
setup_controllers_loop(xml_controller) ==
    LET raised ==
            \/ xml_controller.protocol = NoProtocol
            \/ /\ xml_controller.name = "tcp"
               /\ \/ create_protocol(xml_controller.protocol) = "throw"
                  \/ xml_controller.raises
        position == Len(server.async_servers_) + 1
    IN  /\ server.pc = "setup_controllers"
        /\ Len(server.xml_controllers) < MaxControllers
        /\ server' =
             IF raised
               THEN [server EXCEPT
                       !.xml_controllers = Append(@, xml_controller),
                       !.logged = @ + 1]
             ELSE IF xml_controller.name = "tcp"
               THEN [server EXCEPT
                       !.xml_controllers = Append(@, xml_controller),
                       !.async_servers_ =
                           Append(@, [protocol |-> xml_controller.protocol,
                                      entry |-> Len(server.xml_controllers) + 1]),
                       !.primary_amcp_server_ =
                           PrimaryAfter(@, xml_controller.protocol, position)]
             ELSE [server EXCEPT
                     !.xml_controllers = Append(@, xml_controller),
                     !.warnings = @ + 1]
        /\ UNCHANGED transitionVars

\* setup_controllers: the loop is over
setup_controllers_end ==
    /\ server.pc = "setup_controllers"
    /\ server' = [server EXCEPT !.pc = "done"]
    /\ UNCHANGED transitionVars

InitServerSpec == InitWith({NoLinks})

NextServer ==
    \/ server_impl
    \/ \E xml_channel \in XmlChannels : setup_channels_loop(xml_channel)
    \/ \E channel_grid \in BOOLEAN : setup_channels_end(channel_grid)
    \/ \E xml_controller \in XmlControllers : setup_controllers_loop(xml_controller)
    \/ setup_controllers_end

SpecServer == InitServerSpec /\ [][NextServer]_vars


(* ------------------------------ claims --------------------------------- *)
Returned == pc = "idle" /\ calls >= 1
Duration == info_.duration
Composed == Returned /\ ~exhaustedRet
DestOf(f) == f.frames[Len(f.frames)]
HasSource(f) == Len(f.frames) = 2
SrcOf(f) == f.frames[1]

\* C1: a transition of duration D >= 1 returns a frame only on its first D
\* render_frame calls, and its (D+1)-th call returns "exhausted".
C1_FramesOnlyOnFirstDCalls ==
    (Returned /\ Duration >= 1 /\ calls > Duration) =>
        (result = Absent /\ exhaustedRet)

\* C2: exhaustion is permanent: once a call has returned "exhausted" at the
\* counter test, every later call does too and renders neither child.
C2_ExhaustionPermanent ==
    [][exhaustedRet => (exhaustedRet' /\ pc' = "idle" /\ prod' = prod)]_vars

SlidePushAt(n) ==
    LET a == Rat(n, Duration)
        left == info_.direction = "from_left"
    IN  /\ PointEq(DestOf(result).translate,
                   IF left THEN <<RatAdd(MinusOne, a), Zero>>
                   ELSE <<RatSub(One, a), Zero>>)
        /\ HasSource(result) =>
              PointEq(SrcOf(result).translate,
                      IF info_.type = "slide" THEN <<Zero, Zero>>
                      ELSE IF left THEN <<a, Zero>>
                      ELSE <<RatSub(Zero, a), Zero>>)

WipeAt(n) ==
    LET a == Rat(n, Duration)
        d == DestOf(result)
    IN  /\ IF info_.direction = "from_right"
             THEN /\ RectEq(d.texcoords,
                            <<RatSub(One, a), One, RatSub(Two, a), Zero>>)
                  /\ PointEq(d.translate, <<RatSub(One, a), Zero>>)
             ELSE /\ RectEq(d.texcoords, <<RatAdd(MinusOne, a), One, a, Zero>>)
                  /\ PointEq(d.translate, <<RatAdd(MinusOne, a), Zero>>)
        /\ HasSource(result) =>
              /\ PointEq(SrcOf(result).translate, <<Zero, Zero>>)
              /\ RectEq(SrcOf(result).texcoords, UnitRect)

UntouchedSourceFrame(f) ==
    /\ IsFrame(f)
    /\ f.prod \in ChainOf("source")
    /\ f = ProducedFrame(f.prod, f.idx)

C7_CutLeavesDestUntouched ==
    (Returned /\ info_.type = "cut" /\ Duration = 1 /\ calls = 2) =>
        (prod[DestId].invocations = 0 /\ prod[DestId].pos = 0)

\* C8: construction with duration = 0 fails, so no transition producer of
\* duration 0 exists and render_frame is never called on one.
C8_ZeroDurationRejected ==
    (pc \in {"idle", "fork"}) => (Duration >= 1)

\* C9: when the source slot's render_frame raises on a tick of a non-cut
\* transition, nothing escapes render_frame, the source slot is absent from
\* then on, the producer that raised is never invoked again, that tick and
\* every later one composite dest only, and "exhausted" is returned exactly
\* on call D+1.
C9_SourceFailureAbsorbed ==
    (srcFailure.prod # None /\ info_.type # "cut") =>
        /\ thrown = "none"
        /\ source_producer_ = None
        /\ prod[srcFailure.prod].invocations = srcFailure.invocations
        /\ (Composed /\ IsFrame(frames["dest"])) =>
              /\ result.kind = "composite"
              /\ result.frames = <<frames["dest"]>>
              /\ frames["dest"].prod \in ChainOf("dest")
        /\ (Composed /\ ~IsFrame(frames["dest"])) => result = Absent
        /\ Returned => (exhaustedRet <=> calls > Duration)
        /\ (Returned /\ calls = Duration + 1) => result = Absent

C9_Witness ==
    /\ srcFailure.prod # None /\ srcFailure.call = 1
    /\ info_.type = "mix" /\ Duration = 3
    /\ Composed /\ calls = 3
    /\ result.kind = "composite"

\* C10: on a composed tick of a non-cut transition the result is the
\* composite [source frame, dest frame] when both slots yielded a frame, the
\* composite [dest frame] when only dest did, and absent when dest yielded
\* nothing, whatever the source yielded.
C10_CompositeOrder ==
    (Composed /\ info_.type # "cut") =>
        IF IsFrame(frames["dest"])
          THEN /\ result.kind = "composite"
               /\ frames["dest"].prod \in ChainOf("dest")
               /\ IF IsFrame(frames["source"])
                    THEN /\ result.frames = <<frames["source"], frames["dest"]>>
                         /\ frames["source"].prod \in ChainOf("source")
                    ELSE result.frames = <<frames["dest"]>>
          ELSE result = Absent

C10_Witness ==
    /\ Composed /\ info_.type = "slide"
    /\ result.kind = "composite" /\ HasSource(result)
    /\ SrcOf(result).prod = SourceId /\ DestOf(result).prod = DestId

\* the attributes and samples of two frames agree
SameContent(f, g) ==
    /\ f.alpha = g.alpha
    /\ f.translate = g.translate
    /\ f.texcoords = g.texcoords
    /\ f.audio_data = g.audio_data

\* C11: frames are single-assignment: after render_frame has composed, the
\* frames the dest and source slots yielded still have the alpha, translate,
\* texcoords and audio samples their producers gave them.
C11_InputFramesUntouched ==
    Composed =>
        \A s \in Slots :
            IsFrame(frames[s]) =>
                SameContent(frames[s],
                            ProducedFrame(frames[s].prod, frames[s].idx))

\* C13: as long as the transition producer exists, get_following_producer
\* returns the dest it was constructed with, never absent.
C13_FollowingIsConstructedDest ==
    (pc \in {"idle", "fork"}) => get_following_producer = DestId

\* C15: construction with an absent dest raises the null-argument error
\* naming dest and leaves no transition producer: nothing can be called on
\* it, and every transition producer that exists was given a dest.
C15_AbsentDestRejected ==
    /\ (pc # "new" /\ calls = 0 /\ dest_producer_ = None) =>
          (pc = "ctor_failed" /\ thrown = "null_argument(dest)")
    /\ pc = "ctor_failed" =>
          /\ dest_producer_ = None /\ thrown = "null_argument(dest)"
          /\ calls = 0 /\ source_producer_ = None /\ factory_ = None

C15_Witness == pc = "ctor_failed" /\ info_.duration = 2

\* the values a 16-bit signed sample can hold
SampleMin == ShortMin
SampleMax == ShortMin + ShortModulus - 1

\* C19: on every composed frame of a non-cut transition both volumes lie in
\* 0..256 and every stored sample is floor(s*v/256) of the produced sample s,
\* a value inside the signed 16-bit range (so the cast changed nothing);
\* v = 256 leaves s unchanged and v = 0 gives 0.
C19_AudioScalingInRange ==
    (Composed /\ info_.type # "cut" /\ result.kind = "composite") =>
        \A i \in 1..Len(result.frames) :
            LET f == result.frames[i]
                v == f.volume
                s == SampleOf(f.prod, f.idx)
                scaled == (s * v) \div FullVolume
            IN  /\ v \in 0..FullVolume
                /\ v = IF i = Len(result.frames)
                         THEN DestOf(result).volume
                         ELSE FullVolume - DestOf(result).volume
                /\ scaled \in SampleMin..SampleMax
                /\ f.audio_data = <<scaled>>
                /\ v = FullVolume => f.audio_data = <<s>>
                /\ v = 0 => f.audio_data = <<0>>

C19_Witness ==
    /\ Composed /\ info_.type = "mix"
    /\ result.kind = "composite" /\ HasSource(result)
    /\ DestOf(result).volume = 85
    /\ SampleOf(DestOf(result).prod, DestOf(result).idx) = SampleMin
    /\ SampleOf(SrcOf(result).prod, SrcOf(result).idx) = SampleMax

Has(p, e) == \E i \in 1..Len(prod[p].events) : prod[p].events[i] = e

\* C16: a following producer that takes over a slot on auto-advance is first
\* initialized with the transition's factory, then given the exhausted child
\* as leading producer, then put in the slot, and only then rendered: its
\* initialize and set_leading_producer precede its first render_frame.
C16_AdvanceOrder ==
    \A p \in ProducerIds :
        /\ Has(p, "enter_slot") =>
              /\ SubSeq(prod[p].events, 1, 3) =
                    <<"initialize", "set_leading_producer", "enter_slot">>
              /\ prod[p].initialized
              /\ prod[p].factory = factory_
              /\ prod[p].leading # None
              /\ following[prod[p].leading] = p
              /\ prod[p].invocations > 0 =>
                    /\ Len(prod[p].events) = 4
                    /\ prod[p].events[4] = "render_frame"
        /\ (p \in {DestNextId, SourceNextId} /\ prod[p].invocations > 0) =>
              Has(p, "enter_slot")

C16_Witness ==
    /\ prod[DestNextId].events =
          <<"initialize", "set_leading_producer", "enter_slot", "render_frame">>
    /\ prod[DestNextId].leading = DestId
    /\ prod[DestNextId].factory = TheFactory
    /\ dest_producer_ = DestNextId

OtherSlot(s) == IF s = "dest" THEN "source" ELSE "dest"

\* the frame a slot holds is the one its producer handed out in this call
YieldedThisCall(f) ==
    IsFrame(f) =>
        (tick.inv[f.prod] >= 1 /\ prod[f.prod].pos = f.idx + 1)

\* C18: in every interleaving of the two child tasks compose starts only once
\* both have returned, and a raise in one task leaves the other to run to its
\* end: the other slot's frame of this call is the one compose works with.
C18_JoinBeforeCompose ==
    /\ [](Composed =>
            /\ \A s \in Slots : tick.ran[s] /\ YieldedThisCall(frames[s])
            /\ \A s \in Slots :
                  tick.raised[s] =>
                      /\ ~IsFrame(frames[s])
                      /\ (s = "source" /\ info_.type # "cut"
                            /\ IsFrame(frames["dest"])) =>
                              result.frames = <<frames["dest"]>>
                      /\ (s = "dest" /\ info_.type = "cut") =>
                              result = frames["source"])
    /\ [][(pc = "fork" /\ pc' = "idle") =>
            \A s \in Slots : task[s] = "done" /\ tick.ran[s]]_vars

C18_Witness ==
    /\ Composed /\ info_.type = "wipe"
    /\ tick.raised["source"] /\ tick.adv["dest"] = 1
    /\ IsFrame(frames["dest"]) /\ result.kind = "composite"

\* C12: within one render_frame call of the transition no producer has its
\* render_frame invoked more than once (so never by both child tasks),
\* whatever dest, source and following links the interface was given.
C12_OncePerCall ==
    \A p \in ProducerIds : tick.inv[p] <= 1

\* C17: within one render_frame call a slot is advanced to a following
\* producer at most once; a following that also returns absence ends the
\* slot's task without a further advance.
C17_AdvanceOncePerCall ==
    \A s \in Slots : tick.adv[s] <= 1

\* a consumer element that ends up in the channel's output
Creates(c) == c.name \in ConsumerNames /\ ~c.raises

\* a controller element that ends up in async_servers_
Opens(c) ==
    /\ c.name = "tcp"
    /\ ToUpper(c.protocol) \in {"AMCP", "CII", "CLOCK"}
    /\ ~c.raises

\* a consumer element whose creation raises
RaisesConsumer(c) == c.name \in ConsumerNames /\ c.raises

\* a controller element whose set-up raises
RaisesController(c) ==
    /\ c.name = "tcp"
    /\ (ToUpper(c.protocol) \notin {"AMCP", "CII", "CLOCK"} \/ c.raises)

RECURSIVE RaisedConsumers(_)
RaisedConsumers(xml_channels) ==
    IF xml_channels = <<>> THEN 0
    ELSE Len(SelectSeq(Head(xml_channels).consumers, RaisesConsumer))
         + RaisedConsumers(Tail(xml_channels))

NamesOf(xml) == [i \in 1..Len(xml) |-> xml[i].name]
ProtocolsOf(xml) == [i \in 1..Len(xml) |-> xml[i].protocol]

\* position of the first AMCP server in a sequence of servers, or None
FirstAmcp(servers) ==
    LET hits == { i \in 1..Len(servers) : IEquals(servers[i].protocol, "AMCP") }
    IN  IF hits = {} THEN None
        ELSE CHOOSE i \in hits : \A j \in hits : i <= j

\* C20: a consumer element whose creation raises is skipped, the other
\* consumers of the channel are still added and the channel is appended with
\* index = its position; a controller element that raises is skipped, the
\* other controllers are still set up, every raising element is logged once,
\* and the primary AMCP server is the first tcp server opened with protocol
\* AMCP, never replaced later.
C20_SetupIsolatesFailures ==
    /\ [](/\ \A i \in 1..Len(server.channels_) : server.channels_[i].index = i
          /\ \A i \in 1..Len(server.xml_channels) :
                ValidVideoMode(server.xml_channels[i].video_mode) =>
                    /\ i <= Len(server.channels_)
                    /\ server.channels_[i].output =
                          NamesOf(SelectSeq(server.xml_channels[i].consumers,
                                            Creates))
          /\ ProtocolsOf(server.async_servers_) =
                ProtocolsOf(SelectSeq(server.xml_controllers, Opens))
          /\ server.primary_amcp_server_ = FirstAmcp(server.async_servers_)
          /\ server.logged =
                RaisedConsumers(server.xml_channels)
                + Len(SelectSeq(server.xml_controllers, RaisesController)))
    /\ [][server.primary_amcp_server_ # None =>
            server'.primary_amcp_server_ = server.primary_amcp_server_]_vars

C20_Witness ==
    /\ server.pc = "done"
    /\ Len(server.xml_channels) = 2
    /\ NamesOf(server.xml_channels[2].consumers) = <<"decklink", "screen">>
    /\ server.channels_[2].output = <<"screen">>
    /\ ProtocolsOf(server.xml_controllers) = <<"XYZ", "amcp", "amcp">>
    /\ server.primary_amcp_server_ = 1
    /\ Len(server.async_servers_) = 2

\* C14: tick is total: every tick that is entered returns, whatever the
\* producers raise or exhaust, and it returns exactly one frame, so between
\* ticks the number of frames emitted equals the number of ticks fired.
C14_TickTotal ==
    /\ [](stage.pc = "idle" => stage.emitted = stage.ticks)
    /\ (stage.pc = "tick" ~> stage.pc = "idle")

\* C14, the part that holds: a tick that returns has emitted exactly one frame
C14_ReturnedTicksEmit ==
    /\ stage.pc = "idle" => stage.emitted = stage.ticks
    /\ stage.pc = "tick" => stage.emitted + 1 = stage.ticks

C14_Witness ==
    /\ stage.pc = "idle"
    /\ stage.ticks = MaxTicks
    /\ stage.emitted = MaxTicks
    /\ calls >= 1
    /\ stage.current = DestId

====
